---------------------------- MODULE Spec2Model ----------------------------
(* A model of bjg::lru_cache (src/include/bjg/lru_cache.hpp).               *)
(*                                                                          *)
(* items_ is the std::list of (key, value) pairs, front = most recent.      *)
(* Every list node has an identity (its address): a std::list iterator is   *)
(* a node identity, and keys_ maps a key to the iterator of its node.       *)
(* Every statement of the class that touches items_ or keys_ is one step,   *)
(* so that a failure (an exception thrown by the hash/equality of the key   *)
(* or by a copy) can strike between any two of them.                        *)
EXTENDS Integers, Sequences, FiniteSets

(* ------------------------------ bounds ---------------------------------- *)
MaxKey == 3
MaxValue == 2
MaxCapacity == 2

Keys == 1..MaxKey
Values == 1..MaxValue
\* Node identities (addresses). The allocator gives the node made for key k
\* the address k when that address is free, and a spare address otherwise:
\* which free address a new node gets is the allocator's business, all the
\* class relies on is that no two living nodes share one.
Nodes == 1..(2 * MaxKey)
\* The past-the-end iterator, items_.end() / keys_.end().
END == 0

VARIABLES
    pc,             \* position of the running call; "none": no cache exists
    call,           \* the running (or last) public call and its arguments
    capacity_,      \* lru_cache::capacity_
    items_,         \* lru_cache::items_, a sequence of list nodes
    keys_,          \* lru_cache::keys_, key -> node identity
    existing_item,  \* move_to_front: the keys_ iterator found (its key)
    next_it,        \* move_to_front: the node after the one moved
    emplaced_item,  \* insert_new_item: the keys_ iterator emplaced (its key)
    exc,            \* the exception in flight
    ret,            \* the value about to be returned
    undone,         \* the compensating statements run by guards in this call
    fault,          \* the statement of this call that threw ("none": none did)
    pre,            \* items_, keys_ and result when the running call began
    result,         \* what the last completed call returned or threw
    order,          \* present keys by last successful put or get, latest first,
                    \* the keys a call finds taken in the order it finds them
    lastput,        \* present key -> the value of its last successful put
    run             \* the current run of successful puts of fresh keys

cache == <<capacity_, items_, keys_>>
locals == <<existing_item, next_it, emplaced_item, exc, ret, undone, fault>>
history == <<pre, result, order, lastput, run>>
vars == <<pc, call, capacity_, items_, keys_, existing_item, next_it,
          emplaced_item, exc, ret, undone, fault, pre, result, order,
          lastput, run>>

(* --------------------------- sequences ---------------------------------- *)
\* The keys of a list, front to back.
KeySeq(s) == [i \in 1..Len(s) |-> s[i].first]
KeysOf(s) == {s[i].first : i \in 1..Len(s)}
NodesOf(s) == {s[i].node : i \in 1..Len(s)}
Range(s) == {s[i] : i \in 1..Len(s)}
Reverse(s) == [i \in 1..Len(s) |-> s[Len(s) + 1 - i]]
\* s without the occurrences of x.
Without(s, x) == SelectSeq(s, LAMBDA y : y # x)
\* The position in list s of node n (0 when n is not a node of s).
PosOfNode(s, n) ==
    IF n \in NodesOf(s) THEN CHOOSE i \in 1..Len(s) : s[i].node = n ELSE 0
\* The position in list s of key k (0 when k is not in s).
PosOfKey(s, k) ==
    IF k \in KeysOf(s) THEN CHOOSE i \in 1..Len(s) : s[i].first = k ELSE 0
\* The value stored in list s for key k.
ValueOf(s, k) == s[PosOfKey(s, k)].second

(* ----------------------- std::list<item_type> --------------------------- *)
\* items_.begin(): the iterator of the front node.
begin(s) == IF s = <<>> THEN END ELSE s[1].node
\* std::next(it): the iterator of the node after node it.
next(s, it) ==
    IF PosOfNode(s, it) < Len(s) THEN s[PosOfNode(s, it) + 1].node ELSE END
\* The node a push_front of key k allocates: an address no living node has.
new_node(s, k) ==
    IF k \notin NodesOf(s) THEN k
    ELSE CHOOSE n \in Nodes \ NodesOf(s) :
            n > MaxKey /\ \A m \in Nodes \ NodesOf(s) : m > MaxKey => n <= m
\* A push_front that links the new node at the back.
push_back(s, k, v) ==
    s \o <<[node |-> new_node(s, k), first |-> k, second |-> v]>>
\* items_.push_front(item)
push_front(s, k, v) ==
    <<[node |-> new_node(s, k), first |-> k, second |-> v]>> \o s
\* A pop_front that removes the last element instead of the first.
pop_front_last(s) == SubSeq(s, 1, Len(s) - 1)
\* items_.pop_front()
pop_front(s) == Tail(s)
\* items_.pop_back()
pop_back(s) == SubSeq(s, 1, Len(s) - 1)
\* items_.back()
back(s) == s[Len(s)]
\* A front() that answers the back item.
front_is_back(s) == s[Len(s)]
\* items_.front()
front(s) == s[1]
\* A splice that moves node it to the back of the list.
splice_to_back(s, pos, it) ==
    LET i == PosOfNode(s, it)
    IN  SubSeq(s, 1, i - 1) \o SubSeq(s, i + 1, Len(s)) \o <<s[i]>>
\* items_.splice(pos, items_, it, std::next(it)): node it is moved in front
\* of node pos (of the end when pos is END); no node is created or destroyed.
splice(s, pos, it) ==
    LET i == PosOfNode(s, it)
        rest == SubSeq(s, 1, i - 1) \o SubSeq(s, i + 1, Len(s))
        j == IF pos = END THEN Len(rest) + 1 ELSE PosOfNode(rest, pos)
    IN  IF pos = it THEN s
        ELSE SubSeq(rest, 1, j - 1) \o <<s[i]>> \o SubSeq(rest, j, Len(rest))

(* ------------------ std::unordered_map<Key, iterator> ------------------- *)
EmptyMap == [k \in {} |-> END]
\* keys_.find(key): the iterator of the entry (named by its key) or end().
find(m, k) == IF k \in DOMAIN m THEN k ELSE END
\* An emplace that stores the end iterator instead of the one given.
emplace_end(m, k, it) ==
    IF k \in DOMAIN m THEN m
    ELSE [x \in DOMAIN m \cup {k} |-> IF x = k THEN END ELSE m[x]]
\* keys_.emplace(key, it): no effect when the key is already there.
emplace(m, k, it) ==
    IF k \in DOMAIN m THEN m
    ELSE [x \in DOMAIN m \cup {k} |-> IF x = k THEN it ELSE m[x]]
\* An erase that leaves the key in the index.
erase_nothing(m, k) == m
\* keys_.erase(key) and keys_.erase(iterator)
erase(m, k) == [x \in DOMAIN m \ {k} |-> m[x]]

(* ------------------------- call bookkeeping ----------------------------- *)
NoRet == [b |-> FALSE, v |-> 0]
NoCall == [op |-> "none", key |-> 0, value |-> 0]
NoResult == [op |-> "none", key |-> 0, value |-> 0, status |-> "none",
             b |-> FALSE, v |-> 0]
Outcome(c, status, r) ==
    [op |-> c.op, key |-> c.key, value |-> c.value, status |-> status,
     b |-> r.b, v |-> r.v]
\* What a call remembers of the state it began in: the list, the index, the
\* capacity, whether the call just before it was clear(), and the outcome of
\* the call just before it when that was the same observer call with the
\* same argument (a repeated call).
Snapshot(c) ==
    [items |-> items_, keys |-> keys_, capacity |-> capacity_,
     cleared |-> result.op = "clear",
     retry |-> IF /\ c.op = "put"
                  /\ c.key \notin DOMAIN keys_
                  /\ result.op = "put"
                  /\ result.status = "hash_failure"
                  /\ fault = "restrict_capacity"
               THEN pre.items[Len(pre.items)].first ELSE END,
     repeat |-> IF /\ c.op \in {"contains", "size", "empty"}
                   /\ result.op = c.op
                   /\ result.key = c.key
                THEN result ELSE NoResult]
NewRun(base) == [base |-> base, put |-> <<>>, out |-> <<>>]
\* The keys of list s that list t no longer holds, oldest (back of s) first.
Evicted(s, t) ==
    SelectSeq(Reverse(KeySeq(s)), LAMBDA k : k \notin KeysOf(t))
\* The access order after a completed call: a successful put or get of k
\* makes k the most recent access; the keys that list t no longer holds
\* are forgotten.
Accessed(o, r, t) ==
    SelectSeq(IF r.status = "ok" /\ r.op \in {"put", "get"}
              THEN <<r.key>> \o Without(o, r.key)
              ELSE o,
              LAMBDA k : k \in KeysOf(t))
\* The values last put after a completed call: a successful put of (k, v)
\* makes v the value last put for k; the keys that list t no longer holds
\* are forgotten.
Stored(l, r, t) ==
    LET isput == r.status = "ok" /\ r.op = "put"
    IN  [k \in {x \in KeysOf(t) : x \in DOMAIN l \/ (isput /\ x = r.key)} |->
            IF isput /\ k = r.key THEN r.value ELSE l[k]]
\* The run of puts of fresh, pairwise distinct keys after a completed call.
Extended(rn, r, before, after) ==
    IF r.status = "ok" /\ r.op = "put" /\ r.key \notin KeysOf(before)
    THEN LET b == IF r.key \in Range(rn.base) \cup Range(rn.put)
                  THEN NewRun(KeySeq(before)) ELSE rn
         IN  [base |-> b.base, put |-> Append(b.put, r.key),
              out |-> b.out \o Evicted(before, after)]
    ELSE IF r.status = "ok" /\ r.op \in {"contains", "size", "empty"}
    THEN rn
    ELSE NewRun(KeySeq(after))

(* ------------------------------- Init ----------------------------------- *)
Init ==
    /\ pc = "none"
    /\ call = NoCall
    /\ capacity_ = 0
    /\ items_ = <<>>
    /\ keys_ = EmptyMap
    /\ existing_item = END
    /\ next_it = END
    /\ emplaced_item = END
    /\ exc = "none"
    /\ ret = NoRet
    /\ undone = <<>>
    /\ fault = "none"
    /\ pre = [items |-> <<>>, keys |-> EmptyMap, capacity |-> 0,
              cleared |-> FALSE, retry |-> END, repeat |-> NoResult]
    /\ result = NoResult
    /\ order = <<>>
    /\ lastput = EmptyMap
    /\ run = NewRun(<<>>)

\* A call ends: its outcome is recorded and the cache is idle again.
Finish(status) ==
    LET r == Outcome(call, status, ret)
    IN  /\ pc' = "idle"
        /\ result' = r
        /\ order' = Accessed(KeySeq(pre.items), r, items_)
        /\ lastput' = Stored(lastput, r, items_)
        /\ run' = Extended(run, r, pre.items, items_)
        /\ existing_item' = END
        /\ next_it' = END
        /\ emplaced_item' = END
        /\ exc' = "none"
        /\ ret' = NoRet
        /\ UNCHANGED <<call, cache, undone, fault, pre>>

\* A public call begins: it remembers the state it found.
Begin(op, k, v, at) ==
    /\ pc' = at
    /\ call' = [op |-> op, key |-> k, value |-> v]
    /\ pre' = Snapshot(call')
    /\ result' = NoResult
    /\ undone' = <<>>
    /\ fault' = "none"
    /\ UNCHANGED <<cache, existing_item, next_it, emplaced_item, exc, ret,
                   order, lastput, run>>

\* The statement at pc does not throw.
NoThrow == UNCHANGED <<exc, fault>>

\* A throw that finds every guard dismissed.
Throw_unguarded(e, to) ==
    /\ exc' = e
    /\ fault' = pc
    /\ pc' = "throw"
\* The statement at pc throws e: the exception leaves the call, through the
\* guards that are still armed (to is the first of their statements).
Throw(e, to) ==
    /\ exc' = e
    /\ fault' = pc
    /\ pc' = to

(* --------------------------- lru_cache(capacity) ------------------------ *)
\* A constructor that accepts every capacity.
zero_capacity_accepted(capacity) == FALSE
\* capacity_ == 0
zero_capacity(capacity) == capacity = 0

lru_cache(capacity) ==
    /\ pc = "none"
    /\ call' = [op |-> "construct", key |-> 0, value |-> capacity]
    /\ pre' = Snapshot(call')
    /\ IF zero_capacity(capacity)
       THEN /\ result' = Outcome(call', "length_error", NoRet)
            /\ pc' = "none"
            /\ UNCHANGED capacity_
       ELSE /\ result' = Outcome(call', "ok", NoRet)
            /\ pc' = "idle"
            /\ capacity_' = capacity
    /\ UNCHANGED <<items_, keys_, locals, order, lastput, run>>

(* ------------------------------ empty, size ----------------------------- *)
\* keys_.size()
keys_size(m) == Cardinality(DOMAIN m)
\* keys_.empty()
keys_empty(m) == DOMAIN m = {}

empty ==
    /\ pc = "idle"
    /\ call' = [op |-> "empty", key |-> 0, value |-> 0]
    /\ pre' = Snapshot(call')
    /\ result' = Outcome(call', "ok", [b |-> keys_empty(keys_), v |-> 0])
    /\ undone' = <<>>
    /\ fault' = "none"
    /\ UNCHANGED <<pc, cache, existing_item, next_it, emplaced_item, exc, ret,
                   order, lastput, run>>

size ==
    /\ pc = "idle"
    /\ call' = [op |-> "size", key |-> 0, value |-> 0]
    /\ pre' = Snapshot(call')
    /\ result' = Outcome(call', "ok",
                         [b |-> FALSE, v |-> keys_size(keys_)])
    /\ undone' = <<>>
    /\ fault' = "none"
    /\ UNCHANGED <<pc, cache, existing_item, next_it, emplaced_item, exc, ret,
                   order, lastput, run>>

(* -------------------------------- clear --------------------------------- *)
clear ==
    /\ pc = "idle"
    /\ Begin("clear", 0, 0, "clear")

\* A clear that forgets keys_.clear().
clear_keys_skipped ==
    /\ pc = "clear"
    /\ pc' = "clear_items"
    /\ UNCHANGED <<call, cache, locals, history>>
\* keys_.clear()
clear_keys ==
    /\ pc = "clear"
    /\ keys_' = EmptyMap
    /\ pc' = "clear_items"
    /\ UNCHANGED <<call, capacity_, items_, locals, history>>

\* A clear that forgets items_.clear().
clear_items_skipped ==
    /\ pc = "clear_items"
    /\ pc' = "return"
    /\ UNCHANGED <<call, cache, locals, history>>

clear_items ==
    /\ pc = "clear_items"
    /\ items_' = <<>>
    /\ pc' = "return"
    /\ UNCHANGED <<call, capacity_, keys_, locals, history>>

(* ------------------------------- contains ------------------------------- *)
\* keys_.find(key) != keys_.cend()
found(m, k) == find(m, k) # END

contains(key) ==
    /\ pc = "idle"
    /\ Begin("contains", key, 0, "contains")

\* A get that inserts the key it misses instead of throwing.
after_contains_inserting(op, present) ==
    CASE op = "contains" -> "return"
      [] op = "put" -> IF present THEN "move_to_front" ELSE "insert_new_item"
      [] op = "get" -> IF present THEN "move_to_front" ELSE "insert_new_item"
\* A contains that promotes the key it finds, as get does.
after_contains_promoting(op, present) ==
    CASE op = "contains" -> IF present THEN "move_to_front" ELSE "return"
      [] op = "put" -> IF present THEN "move_to_front" ELSE "insert_new_item"
      [] op = "get" -> IF present THEN "move_to_front" ELSE "throw"
\* Where the caller of contains goes on: the public call returns, put
\* updates or inserts, get promotes or throws std::out_of_range.
after_contains(op, present) ==
    CASE op = "contains" -> "return"
      [] op = "put" -> IF present THEN "move_to_front" ELSE "insert_new_item"
      [] op = "get" -> IF present THEN "move_to_front" ELSE "throw"

\* The body of contains, called by the caller, by put and by get (pc tells
\* by which). The hash or the equality of the key may throw inside
\* keys_.find.
contains_find ==
    /\ pc \in {"contains", "put", "get"}
    /\ \E fails \in BOOLEAN :
        IF fails
        THEN /\ Throw("hash_failure", "throw")
             /\ UNCHANGED ret
        ELSE LET present == found(keys_, call.key)
             IN  /\ ret' = IF pc = "contains"
                           THEN [b |-> present, v |-> 0] ELSE ret
                 /\ IF after_contains(pc, present) = "throw"
                    THEN Throw("out_of_range", "throw")
                    ELSE pc' = after_contains(pc, present) /\ NoThrow
    /\ UNCHANGED <<call, cache, existing_item, next_it, emplaced_item, undone,
                   history>>

(* ------------------------------- put, get ------------------------------- *)
put(key, value) ==
    /\ pc = "idle"
    /\ Begin("put", key, value, "put")

get(key) ==
    /\ pc = "idle"
    /\ Begin("get", key, 0, "get")

(* ----------------------------- move_to_front ---------------------------- *)
\* A lookup that throws only after the item was moved to the front.
move_to_front_find_late ==
    /\ pc = "move_to_front"
    /\ \E fails \in BOOLEAN :
        IF fails
        THEN /\ Throw("hash_failure", "throw")
             /\ items_' = splice(items_, begin(items_), keys_[call.key])
             /\ UNCHANGED <<capacity_, keys_, existing_item, next_it>>
        ELSE /\ existing_item' = find(keys_, call.key)
             /\ NoThrow
             /\ IF keys_[existing_item'] = begin(items_)
                THEN /\ pc' = IF call.op = "put" THEN "update_front_value"
                                                 ELSE "get_front_value"
                     /\ UNCHANGED next_it
                ELSE /\ next_it' = next(items_, keys_[existing_item'])
                     /\ pc' = "splice"
             /\ UNCHANGED cache
    /\ UNCHANGED <<call, emplaced_item, ret, undone, history>>
\* keys_.find(key), the early return when the item is the front one, and
\* std::next of the item's iterator.
move_to_front_find ==
    /\ pc = "move_to_front"
    /\ \E fails \in BOOLEAN :
        IF fails
        THEN /\ Throw("hash_failure", "throw")
             /\ UNCHANGED <<existing_item, next_it>>
        ELSE /\ existing_item' = find(keys_, call.key)
             /\ NoThrow
             /\ IF keys_[existing_item'] = begin(items_)
                THEN /\ pc' = IF call.op = "put" THEN "update_front_value"
                                                 ELSE "get_front_value"
                     /\ UNCHANGED next_it
                ELSE /\ next_it' = next(items_, keys_[existing_item'])
                     /\ pc' = "splice"
    /\ UNCHANGED <<call, cache, emplaced_item, ret, undone, history>>

\* items_.splice(items_.begin(), items_, existing_item->second, next_it)
move_to_front_splice ==
    /\ pc = "splice"
    /\ items_' = splice(items_, begin(items_), keys_[existing_item])
    /\ pc' = "swap"
    /\ UNCHANGED <<call, capacity_, keys_, locals, history>>

\* The guarded call: existing_item->second is swapped with a copy of
\* items_.begin(). Swapping two iterators cannot throw, so the guard is
\* dismissed and its splice back is never run.
move_to_front_swap ==
    /\ pc = "swap"
    /\ keys_' = [keys_ EXCEPT ![existing_item] = begin(items_)]
    /\ pc' = IF call.op = "put" THEN "update_front_value" ELSE "get_front_value"
    /\ UNCHANGED <<call, capacity_, items_, locals, history>>

(* -------------------- update_front_value, get_front_value --------------- *)
\* An update that leaves the old value in place.
assign_front_skipped(s, v) == s
\* The list with the value of its front item replaced.
assign_front(s, v) == [s EXCEPT ![1].second = v]

\* auto value_copy = value may throw; the swap that follows does not.
update_front_value ==
    /\ pc = "update_front_value"
    /\ \E fails \in BOOLEAN :
        IF fails
        THEN /\ Throw("copy_failure", "throw")
             /\ UNCHANGED items_
        ELSE /\ items_' = assign_front(items_, call.value)
             /\ pc' = "return"
             /\ NoThrow
    /\ UNCHANGED <<call, capacity_, keys_, existing_item, next_it,
                   emplaced_item, ret, undone, history>>

get_front_value ==
    /\ pc = "get_front_value"
    /\ ret' = [b |-> FALSE, v |-> front(items_).second]
    /\ pc' = "return"
    /\ UNCHANGED <<call, cache, existing_item, next_it, emplaced_item, exc,
                   undone, fault, history>>

(* ---------------------------- insert_new_item --------------------------- *)
\* items_.push_front(item): copying the item into a new node may throw, and
\* the list is then as it was. No guard is armed yet.
insert_new_item_push_front ==
    /\ pc = "insert_new_item"
    /\ \E fails \in BOOLEAN :
        IF fails
        THEN /\ Throw("copy_failure", "throw")
             /\ UNCHANGED items_
        ELSE /\ items_' = push_front(items_, call.key, call.value)
             /\ pc' = "emplace"
             /\ NoThrow
    /\ UNCHANGED <<call, capacity_, keys_, existing_item, next_it,
                   emplaced_item, ret, undone, history>>

\* The first guarded call: keys_.emplace(item.first, items_.begin()). When
\* the hash throws nothing is emplaced and the guard pops the front item.
insert_new_item_emplace ==
    /\ pc = "emplace"
    /\ \E fails \in BOOLEAN :
        IF fails
        THEN /\ Throw("hash_failure", "undo_push_front")
             /\ UNCHANGED <<keys_, emplaced_item>>
        ELSE /\ keys_' = emplace(keys_, call.key, begin(items_))
             /\ emplaced_item' = call.key
             /\ pc' = "restrict_capacity"
             /\ NoThrow
    /\ UNCHANGED <<call, capacity_, items_, existing_item, next_it, ret,
                   undone, history>>

(* --------------------------- restrict_capacity -------------------------- *)
\* A capacity test that finds every list too long.
exceeds_always(s, capacity) == Len(s) >= 1
\* A capacity test that evicts as soon as the list reaches the capacity.
exceeds_early(s, capacity) == Len(s) >= capacity
\* A capacity test that is off by one.
exceeds_late(s, capacity) == Len(s) > capacity + 1
\* items_.size() > capacity_
exceeds(s, capacity) == Len(s) > capacity

\* An eviction that erases the key of the front item from the index.
victim_front(s) == s[1].first
\* The key restrict_capacity erases: the one of the back item.
victim(s) == back(s).first

\* The second guarded call: keys_.erase(items_.back().first) when the list
\* exceeds the capacity. When the hash throws nothing is erased and the
\* guard erases the emplaced entry and pops the front item.
restrict_capacity_erase ==
    /\ pc = "restrict_capacity"
    /\ IF exceeds(items_, capacity_)
       THEN \E fails \in BOOLEAN :
            IF fails
            THEN /\ Throw("hash_failure", "undo_emplace")
                 /\ UNCHANGED keys_
            ELSE /\ keys_' = erase(keys_, victim(items_))
                 /\ pc' = "pop_back"
                 /\ NoThrow
       ELSE /\ pc' = "return"
            /\ NoThrow
            /\ UNCHANGED keys_
    /\ UNCHANGED <<call, capacity_, items_, existing_item, next_it,
                   emplaced_item, ret, undone, history>>

\* items_.pop_back()
restrict_capacity_pop_back ==
    /\ pc = "pop_back"
    /\ items_' = pop_back(items_)
    /\ pc' = "return"
    /\ UNCHANGED <<call, capacity_, keys_, locals, history>>

(* ------------------------- guarded_scope, on throw ---------------------- *)
\* A guard that leaves the emplaced key in the index.
guard_erase_emplaced_skipped ==
    /\ pc = "undo_emplace"
    /\ undone' = Append(undone, "erase")
    /\ pc' = "undo_push_front"
    /\ UNCHANGED <<call, cache, existing_item, next_it,
                   emplaced_item, exc, ret, fault, history>>
\* keys_.erase(emplaced_item.first): the first statement of the guard of
\* the second guarded call; erasing by iterator calls neither the hash nor
\* the equality of the key.
guard_erase_emplaced ==
    /\ pc = "undo_emplace"
    /\ keys_' = erase(keys_, emplaced_item)
    /\ undone' = Append(undone, "erase")
    /\ pc' = "undo_push_front"
    /\ UNCHANGED <<call, capacity_, items_, existing_item, next_it,
                   emplaced_item, exc, ret, fault, history>>

\* items_.pop_front(): the guard of the first guarded call, and the second
\* statement of the guard of the second one.
guard_pop_front ==
    /\ pc = "undo_push_front"
    /\ items_' = pop_front(items_)
    /\ undone' = Append(undone, "pop_front")
    /\ pc' = "throw"
    /\ UNCHANGED <<call, capacity_, keys_, existing_item, next_it,
                   emplaced_item, exc, ret, fault, history>>

(* ------------------------- the end of a call ---------------------------- *)
return ==
    /\ pc = "return"
    /\ Finish("ok")

\* An exception that is swallowed: the call returns normally.
throw_swallowed ==
    /\ pc = "throw"
    /\ Finish("ok")
\* The exception leaves the public call.
throw ==
    /\ pc = "throw"
    /\ Finish(exc)

(* ------------------------------ the system ------------------------------ *)
Next ==
    \/ \E capacity \in 0..MaxCapacity : lru_cache(capacity)
    \/ empty
    \/ size
    \/ clear
    \/ clear_keys
    \/ clear_items
    \/ \E key \in Keys : contains(key)
    \/ \E key \in Keys, value \in Values : put(key, value)
    \/ \E key \in Keys : get(key)
    \/ contains_find
    \/ move_to_front_find
    \/ move_to_front_splice
    \/ move_to_front_swap
    \/ update_front_value
    \/ get_front_value
    \/ insert_new_item_push_front
    \/ insert_new_item_emplace
    \/ restrict_capacity_erase
    \/ restrict_capacity_pop_back
    \/ guard_erase_emplaced
    \/ guard_pop_front
    \/ return
    \/ throw

Spec == Init /\ [][Next]_vars

\* The statements of a call in progress. The class is synchronous,
\* single-threaded code without loops or waits: once a public function is
\* entered its next statement is executed.
Statement ==
    \/ clear_keys
    \/ clear_items
    \/ contains_find
    \/ move_to_front_find
    \/ move_to_front_splice
    \/ move_to_front_swap
    \/ update_front_value
    \/ get_front_value
    \/ insert_new_item_push_front
    \/ insert_new_item_emplace
    \/ restrict_capacity_erase
    \/ restrict_capacity_pop_back
    \/ guard_erase_emplaced
    \/ guard_pop_front
    \/ return
    \/ throw

FairSpec == Spec /\ WF_vars(Statement)

(* ------------------------------- typing --------------------------------- *)
Items == [node : Nodes, first : Keys, second : Values]

TypeOK ==
    /\ pc \in {"none", "idle", "contains", "put", "get", "clear",
               "clear_items", "move_to_front", "splice", "swap",
               "update_front_value", "get_front_value", "insert_new_item",
               "emplace", "restrict_capacity", "pop_back", "undo_emplace",
               "undo_push_front", "return", "throw"}
    /\ capacity_ \in 0..MaxCapacity
    /\ items_ \in Seq(Items)
    /\ DOMAIN keys_ \subseteq Keys
    /\ \A k \in DOMAIN keys_ : keys_[k] \in Nodes
    /\ pc # "none" => capacity_ >= 1
    /\ pre.retry \in Keys \cup {END}
    /\ exc \in {"none", "hash_failure", "copy_failure", "out_of_range"}

(* ============================= the claims =============================== *)
\* No call is running: the state a caller can observe.
AtRest == pc \in {"idle", "none"}
\* The last completed call was op and returned normally.
Returned(op) == pc = "idle" /\ result.op = op /\ result.status = "ok"
\* The last completed call was op and threw.
Threw(op) == pc = "idle" /\ result.op = op /\ result.status \notin {"ok", "none"}
\* The (key, value) pairs of a list, front to back.
Entries(s) == [i \in 1..Len(s) |-> <<s[i].first, s[i].second>>]
\* The list s without the node of key k.
Others(s, k) == SelectSeq(s, LAMBDA e : e.first # k)
\* The last call left the list and the index as it found them.
Untouched == items_ = pre.items /\ keys_ = pre.keys

\* C1: after every public call, returned or failed, the index and the list
\* hold the same number of entries, which is what size() answers, and that
\* number is at most the capacity.
C1_SizesAgree ==
    AtRest =>
        /\ keys_size(keys_) = Len(items_)
        /\ Len(items_) <= capacity_
        /\ Returned("size") => result.v = Len(items_)

\* C1 witness: a put into a full cache failed in its eviction step and the
\* cache is at rest again, still full.
C1_Witness ==
    /\ Threw("put")
    /\ fault = "restrict_capacity"
    /\ Len(items_) = capacity_

\* C2: after every public call, returned or failed, the index and the list
\* hold the same keys, no key is twice in the list, and the iterator the
\* index stores for key k is the one of the list node whose key is k.
C2_IndexMatchesList ==
    AtRest =>
        /\ DOMAIN keys_ = KeysOf(items_)
        /\ \A i, j \in 1..Len(items_) :
              items_[i].first = items_[j].first => i = j
        /\ \A i, j \in 1..Len(items_) :
              items_[i].node = items_[j].node => i = j
        /\ \A k \in DOMAIN keys_ :
              /\ keys_[k] \in NodesOf(items_)
              /\ items_[PosOfNode(items_, keys_[k])].first = k

\* C2 witness: a get moved the back node of a list of two or more nodes to
\* the front, and the index still leads from the key to that node.
C2_Witness ==
    /\ Returned("get")
    /\ Len(items_) >= 2
    /\ back(pre.items).first = result.key
    /\ items_[1].first = result.key
    /\ keys_[result.key] = items_[1].node

\* C3: at rest the list holds the present keys in the order of their last
\* successful put or get, most recent first; observers and failed calls do
\* not count as an access.
C3_RecencyOrder == pc = "idle" => KeySeq(items_) = order

\* The last call was a successful put of a key the cache did not hold.
PutNew == Returned("put") /\ result.key \notin KeysOf(pre.items)
\* The last call was a successful put of a key the cache held.
PutExisting == Returned("put") /\ result.key \in KeysOf(pre.items)
\* The keys put and kept so far in the current run, oldest first.
RunKeys == Reverse(run.base) \o run.put
\* How many keys of the run are beyond the capacity.
RunExcess == Len(RunKeys) - capacity_

\* C4: a successful put of an absent key into a full cache evicts exactly
\* the back item of the list before the call, keeps the new key at the front
\* (also with capacity 1), leaves size() = capacity and every other item in
\* place with its value; and a run of puts of n more distinct keys than the
\* capacity has evicted the n oldest keys of the run, oldest first.
C4_EvictsLeastRecent ==
    /\ (PutNew /\ Len(pre.items) = capacity_) =>
          /\ Entries(items_) =
                <<<<result.key, result.value>>>> \o Entries(pop_back(pre.items))
          /\ keys_size(keys_) = capacity_
          /\ found(keys_, result.key)
          /\ ~found(keys_, back(pre.items).first)
          /\ DOMAIN keys_ =
                (DOMAIN pre.keys \ {back(pre.items).first}) \cup {result.key}
    /\ (pc = "idle" /\ RunExcess > 0) =>
          /\ run.out = SubSeq(RunKeys, 1, RunExcess)
          /\ KeySeq(items_) =
                Reverse(SubSeq(RunKeys, RunExcess + 1, Len(RunKeys)))

\* C4 witness: a run of puts of distinct keys has evicted two keys, the
\* second by a put into a full cache.
C4_Witness ==
    /\ PutNew
    /\ Len(pre.items) = capacity_
    /\ Len(run.out) >= 2

\* C5: a successful put(k, v) of an absent key into a cache that is not full
\* adds one to size(), puts (k, v) at the front, evicts nothing and leaves
\* every other item in place with its value; and after a run of puts of
\* distinct keys that does not exceed the capacity, size() is the number of
\* keys, contains holds for each and each has the value last put for it.
C5_InsertBelowCapacity ==
    /\ (PutNew /\ Len(pre.items) < capacity_) =>
          /\ Entries(items_) =
                <<<<result.key, result.value>>>> \o Entries(pre.items)
          /\ keys_size(keys_) = Len(pre.items) + 1
          /\ DOMAIN keys_ = DOMAIN pre.keys \cup {result.key}
    /\ (pc = "idle" /\ RunExcess <= 0) =>
          /\ run.out = <<>>
          /\ keys_size(keys_) = Len(RunKeys)
          /\ \A k \in Range(RunKeys) :
                found(keys_, k) /\ ValueOf(items_, k) = lastput[k]

\* C5 witness: a run of puts of distinct keys into the empty cache has just
\* filled it, two keys or more.
C5_Witness ==
    /\ PutNew
    /\ run.base = <<>>
    /\ Len(run.put) = capacity_
    /\ capacity_ >= 2

\* C6: a successful put(k, v) of a present key leaves size() and the key set
\* as they were, evicts nothing, gives k the value v, moves k to the front
\* (the last place to be evicted from) and leaves the other items in their
\* order with their values.
C6_UpdateExisting ==
    PutExisting =>
        /\ Entries(items_) = <<<<result.key, result.value>>>>
                                \o Entries(Others(pre.items, result.key))
        /\ DOMAIN keys_ = DOMAIN pre.keys
        /\ keys_size(keys_) = Len(pre.items)
        /\ ValueOf(items_, result.key) = result.value
        /\ Len(items_) >= 2 => victim(items_) # result.key

\* C6 witness: the key updated was the back item, with another value.
C6_Witness ==
    /\ PutExisting
    /\ Len(pre.items) >= 2
    /\ back(pre.items).first = result.key
    /\ back(pre.items).second # result.value

\* C7: a get(k) of a present key that does not fail in a lookup returns the
\* value of the last successful put of k, moves k to the front and changes
\* nothing else: size(), the key set, every value and the order of the other
\* items are as they were.
C7_GetPromotes ==
    /\ Returned("get") =>
          /\ result.key \in KeysOf(pre.items)
          /\ result.v = ValueOf(pre.items, result.key)
          /\ result.v = lastput[result.key]
          /\ Entries(items_) = <<<<result.key, result.v>>>>
                                  \o Entries(Others(pre.items, result.key))
          /\ DOMAIN keys_ = DOMAIN pre.keys
          /\ keys_size(keys_) = Len(pre.items)
    /\ (pc = "idle" /\ result.op = "get" /\ result.key \in KeysOf(pre.items)) =>
          result.status \in {"ok", "hash_failure"}

\* C7 witness: the key got was the back item, the next to be evicted, and no
\* longer is.
C7_Witness ==
    /\ Returned("get")
    /\ Len(pre.items) >= 2
    /\ victim(pre.items) = result.key
    /\ victim(items_) # result.key

\* C8: a get(k) of an absent key never returns: it throws std::out_of_range
\* (or what the hash threw in its lookup) and leaves the list and the index
\* as they were.
C8_GetAbsent ==
    (pc = "idle" /\ result.op = "get" /\ result.key \notin KeysOf(pre.items)) =>
        /\ result.status \in {"out_of_range", "hash_failure"}
        /\ result.status = "hash_failure" => fault = "get"
        /\ Untouched
        /\ KeySeq(items_) = KeySeq(pre.items)

\* C8 witness: a get of an absent key threw std::out_of_range on a full
\* cache.
C8_Witness ==
    /\ Threw("get")
    /\ result.status = "out_of_range"
    /\ result.key \notin KeysOf(items_)
    /\ Len(items_) = capacity_

\* C9: contains(k) answers whether the cache holds k; contains, size and
\* empty change nothing, so the key the next put would evict is the same
\* after them; a repeated call answers the same; empty() is size() = 0.
C9_ObserversChangeNothing ==
    /\ Returned("contains") => result.b = (result.key \in KeysOf(pre.items))
    /\ Returned("empty") => result.b = (keys_size(keys_) = 0)
    /\ Returned("size") => result.v = Len(pre.items)
    /\ (pc = "idle" /\ result.op \in {"contains", "size", "empty"}) =>
          /\ Untouched
          /\ items_ # <<>> => victim(items_) = victim(pre.items)
          /\ (result.status = "ok" /\ pre.repeat.status = "ok") =>
                result.b = pre.repeat.b /\ result.v = pre.repeat.v

\* C9 witness: contains was called twice in a row on the back item of a
\* list of two or more and answered true.
C9_Witness ==
    /\ Returned("contains")
    /\ pre.repeat.status = "ok"
    /\ result.b
    /\ Len(items_) >= 2
    /\ victim(items_) = result.key

\* C10: clear() never fails and leaves size() = 0 and empty() true, whatever
\* the cache held; the capacity is as it was; a contains right after it
\* answers false and a get right after it throws.
C10_ClearEmpties ==
    /\ (pc = "idle" /\ result.op = "clear") =>
          /\ result.status = "ok"
          /\ items_ = <<>>
          /\ keys_size(keys_) = 0
          /\ keys_empty(keys_)
          /\ \A k \in Keys : ~found(keys_, k)
          /\ capacity_ = pre.capacity
    /\ (pc = "idle" /\ pre.cleared) =>
          /\ Returned("contains") => ~result.b
          /\ Returned("size") => result.v = 0
          /\ Returned("empty") => result.b
          /\ result.op = "get" =>
                /\ result.status \in {"out_of_range", "hash_failure"}
                /\ result.status = "hash_failure" => fault = "get"

\* C10 witness: a full cache of two or more items was cleared.
C10_Witness ==
    /\ Returned("clear")
    /\ Len(pre.items) = capacity_
    /\ capacity_ >= 2

\* C11: constructing with capacity 0 throws std::length_error and leaves no
\* cache; with a capacity of 1 or more it yields an empty cache of that
\* capacity, which no later call changes: a cache that exists has a capacity
\* of 1 or more.
C11_Construction ==
    /\ (pc = "none" /\ result.op = "construct") =>
          /\ result.status = "length_error"
          /\ result.value = 0
          /\ capacity_ = 0 /\ items_ = <<>> /\ keys_empty(keys_)
    /\ Returned("construct") =>
          /\ result.value >= 1
          /\ capacity_ = result.value
          /\ items_ = <<>> /\ keys_size(keys_) = 0
    /\ pc # "none" =>
          /\ capacity_ >= 1
          /\ call.op # "construct" => capacity_ = pre.capacity

\* C11 witness: a construction with capacity 0 has just thrown.
C11_Witness ==
    /\ pc = "none"
    /\ result.op = "construct"
    /\ result.status = "length_error"

\* C12: a put of a new key whose keys_.emplace throws (the hash or the
\* equality of the key) takes the entry it pushed off the front again and
\* throws that failure: the list with its order and values, the index and
\* so every contains and size result are what they were before the call,
\* and the key of the call is still absent.
C12_EmplaceFailureRollsBack ==
    (Threw("put") /\ fault = "emplace") =>
        /\ result.status = "hash_failure"
        /\ Untouched
        /\ Len(items_) = Len(pre.items)
        /\ KeysOf(items_) = KeysOf(pre.items)
        /\ call.key \notin KeysOf(items_)
        /\ ~found(keys_, call.key)
        /\ \A k \in Keys : found(keys_, k) = found(pre.keys, k)
        /\ undone = <<"pop_front">>

\* C12 witness: the registration of a new key failed in a cache that held
\* entries.
C12_Witness ==
    /\ Threw("put")
    /\ fault = "emplace"
    /\ Len(pre.items) >= 1

\* C13: a put of a new key into a full cache whose keys_.erase of the
\* least recently used key throws leaves the cache as it was before the
\* call: the new key is in neither the index nor the list, every earlier
\* entry, the one to evict included, is there with its value and position,
\* the size equals the capacity, and the hash failure is thrown. A put of a
\* new key that follows and returns evicts the entry the failed put was
\* evicting.
C13_EvictionFailureRollsBack ==
    /\ (Threw("put") /\ fault = "restrict_capacity") =>
          /\ result.status = "hash_failure"
          /\ Untouched
          /\ call.key \notin KeysOf(items_)
          /\ ~found(keys_, call.key)
          /\ Len(items_) = capacity_
          /\ keys_size(keys_) = capacity_
          /\ undone = <<"erase", "pop_front">>
    /\ (PutNew /\ pre.retry # END) =>
          /\ Evicted(pre.items, items_) = <<pre.retry>>
          /\ ~found(keys_, pre.retry)
          /\ Len(items_) = capacity_

\* C13 witness: a put of a new key has returned right after a put whose
\* eviction failed.
C13_Witness ==
    /\ PutNew
    /\ pre.retry # END

\* The exception the statement at position f throws in a call of key k that
\* began with list s; "ok" when no statement threw.
Raised(f, k, s) ==
    CASE f = "none" -> {"ok"}
      [] f \in {"contains", "put", "move_to_front", "emplace",
                "restrict_capacity"} -> {"hash_failure"}
      [] f = "get" -> IF k \in KeysOf(s) THEN {"hash_failure"}
                      ELSE {"hash_failure", "out_of_range"}
      [] f \in {"insert_new_item", "update_front_value"} -> {"copy_failure"}

\* A put, get or contains is in progress.
C14_Running == pc \notin {"none", "idle"} /\ call.op \in {"put", "get", "contains"}

\* A completed put, get or contains threw exactly when one of its
\* statements threw, and what it threw is what that statement threw; while
\* an exception is in flight only guards run.
C14_Outcome ==
    /\ (AtRest /\ result.op \in {"put", "get", "contains"}) =>
          /\ result.status # "ok" <=> fault # "none"
          /\ result.status \in Raised(fault, call.key, pre.items)
          /\ exc = "none"
    /\ (C14_Running /\ exc # "none") =>
          /\ pc \in {"undo_emplace", "undo_push_front", "throw"}
          /\ fault # "none"
          /\ exc \in Raised(fault, call.key, pre.items)
    /\ (C14_Running /\ exc = "none") =>
          /\ pc \notin {"undo_emplace", "undo_push_front", "throw"}
          /\ fault = "none"

\* An exception in flight is neither replaced nor dropped: every step keeps
\* it, the guards included, until the call ends with it.
C14_Kept ==
    (C14_Running /\ exc # "none") =>
        \/ exc' = exc /\ fault' = fault /\ pc' \in {"undo_push_front", "throw"}
        \/ pc = "throw" /\ pc' = "idle" /\ result'.status = exc /\ fault' = fault

\* C14: every put, get and contains ends, either returning or throwing; it
\* throws exactly when one of its statements threw (the hash or the
\* equality of the key, a copy, or the absent key of get), and it throws
\* what that statement threw: no failure is swallowed, retried or replaced,
\* and the guards that roll back throw nothing.
C14_CallsEndFaithfully ==
    /\ []C14_Outcome
    /\ [][C14_Kept]_vars
    /\ C14_Running ~> AtRest

\* C14 witness: a put that failed while evicting has ended, after both
\* guards ran, with the hash failure of the eviction.
C14_Witness ==
    /\ Threw("put")
    /\ fault = "restrict_capacity"
    /\ result.status = "hash_failure"
    /\ undone = <<"erase", "pop_front">>

\* C15: a hash failure in the lookup of contains(k), in the presence check
\* of get(k) or in the lookup of get(k)'s promotion is thrown to the
\* caller and changes nothing: the keys, the values and the order are those
\* before the call; a get that fails in its second lookup has not moved k.
C15_LookupFailureChangesNothing ==
    /\ (Threw("contains") \/ (Threw("get") /\ result.status = "hash_failure")) =>
          /\ fault \in {"contains", "get", "move_to_front"}
          /\ result.status = "hash_failure"
          /\ Untouched
          /\ Entries(items_) = Entries(pre.items)
          /\ \A k \in Keys : found(keys_, k) = found(pre.keys, k)
          /\ undone = <<>>
    /\ (Threw("get") /\ fault = "move_to_front") =>
          /\ call.key \in KeysOf(pre.items)
          /\ PosOfKey(items_, call.key) = PosOfKey(pre.items, call.key)
          /\ keys_[call.key] = pre.keys[call.key]

\* C15 witness: the second lookup of a get failed for a key that was not
\* the front one.
C15_Witness ==
    /\ Threw("get")
    /\ fault = "move_to_front"
    /\ PosOfKey(pre.items, call.key) > 1

\* C16: a put that throws leaves the cache as it was before the call, also
\* when the key is present: whichever statement threw (the presence check,
\* the lookup of the promotion or the copy of the new value after the
\* promotion), the key has not been moved and its value has not changed.
C16_FailedPutChangesNothing ==
    Threw("put") =>
        /\ Entries(items_) = Entries(pre.items)
        /\ \A k \in Keys : found(keys_, k) = found(pre.keys, k)
        /\ call.key \in KeysOf(pre.items) =>
              /\ PosOfKey(items_, call.key) = PosOfKey(pre.items, call.key)
              /\ ValueOf(items_, call.key) = ValueOf(pre.items, call.key)

\* C17 as claimed: at every step of every call the index and the list hold
\* the same keys, except while a rollback is in progress; so also after the
\* new entry is pushed and before it is registered, after it is registered
\* and before the back entry is evicted, and inside clear.
C17_InSyncAtEveryStep ==
    pc \notin {"undo_emplace", "undo_push_front"} =>
        DOMAIN keys_ = KeysOf(items_)

\* C17: the index and the list hold the same keys at rest and at every
\* step of a call except in four places, where the index holds a subset of
\* the keys of the list: after push_front and before emplace the list
\* alone holds the new key; after keys_.erase of the key to evict and
\* before pop_back the list alone holds that key; in clear after
\* keys_.clear() and before items_.clear() the index is empty; and in a
\* rollback before pop_front the list alone holds the new key.
C17_InSyncOutsideWindows ==
    CASE pc = "emplace" ->
            /\ call.key \in KeysOf(items_)
            /\ DOMAIN keys_ = KeysOf(items_) \ {call.key}
      [] pc = "pop_back" ->
            /\ Len(items_) >= 2
            /\ DOMAIN keys_ = KeysOf(items_) \ {back(items_).first}
      [] pc = "clear_items" ->
            DOMAIN keys_ = {}
      [] pc = "undo_push_front" ->
            /\ call.key \in KeysOf(items_)
            /\ DOMAIN keys_ = KeysOf(items_) \ {call.key}
      [] OTHER ->
            DOMAIN keys_ = KeysOf(items_)

\* C17 witness: the key to evict has left the index and its entry is still
\* at the back of the list.
C17_Witness ==
    /\ pc = "pop_back"
    /\ back(items_).first \notin DOMAIN keys_
    /\ back(items_).first \in KeysOf(items_)

\* C18: in a put of a new key the guards run only after a failure and undo
\* in reverse order. When the eviction fails the index entry of the new key
\* is erased first and the front entry popped second, both before the
\* failure leaves the call; when the registration fails only the front
\* entry is popped; when no statement fails no guard runs.
C18_GuardsRunInReverse ==
    (pc # "none" /\ call.op = "put") =>
        /\ fault \notin {"emplace", "restrict_capacity"} => undone = <<>>
        /\ Returned("put") => undone = <<>>
        /\ pc = "undo_emplace" =>
              /\ fault = "restrict_capacity"
              /\ undone = <<>>
              /\ found(keys_, call.key)
              /\ front(items_).first = call.key
        /\ pc = "undo_push_front" =>
              /\ fault \in {"emplace", "restrict_capacity"}
              /\ undone = IF fault = "emplace" THEN <<>> ELSE <<"erase">>
              /\ ~found(keys_, call.key)
              /\ front(items_).first = call.key
        /\ (pc \in {"throw", "idle"} /\ fault = "emplace") =>
              /\ undone = <<"pop_front">>
              /\ items_ = pre.items
        /\ (pc \in {"throw", "idle"} /\ fault = "restrict_capacity") =>
              /\ undone = <<"erase", "pop_front">>
              /\ items_ = pre.items /\ keys_ = pre.keys

\* C18 witness: the eviction failed, the index entry of the new key is
\* erased and its front entry is about to be popped.
C18_Witness ==
    /\ pc = "undo_push_front"
    /\ fault = "restrict_capacity"
    /\ undone = <<"erase">>

(* ------------------------ the simplified variant ------------------------ *)
\* include/lru_cache.hpp: the same class without guards. Its state is a
\* record of the list, the index and the capacity; a member function is an
\* operator from the state to the state after the call, a public one to
\* the state and the outcome of the call. No statement of it throws here
\* but the two throw statements.
simple_state(s, m, c) == [items |-> s, keys |-> m, capacity |-> c]

simple_outcome(st, status, b, v) ==
    [state |-> st, status |-> status, b |-> b, v |-> v]

simple_lru_cache(capacity) ==
    IF capacity = 0
    THEN simple_outcome(simple_state(<<>>, EmptyMap, 0), "length_error", FALSE, 0)
    ELSE simple_outcome(simple_state(<<>>, EmptyMap, capacity), "ok", FALSE, 0)

simple_empty(st) == simple_outcome(st, "ok", DOMAIN st.keys = {}, 0)

simple_size(st) == simple_outcome(st, "ok", FALSE, Cardinality(DOMAIN st.keys))

simple_clear(st) ==
    simple_outcome([st EXCEPT !.keys = EmptyMap, !.items = <<>>], "ok", FALSE, 0)

simple_contains(st, key) == find(st.keys, key) # END

simple_restrict_capacity(st) ==
    IF Len(st.items) > st.capacity
    THEN LET erased == [st EXCEPT !.keys = erase(st.keys, back(st.items).first)]
         IN  [erased EXCEPT !.items = pop_back(erased.items)]
    ELSE st

simple_insert_new_item(st, key, value) ==
    LET pushed == [st EXCEPT !.items = push_front(st.items, key, value)]
        emplaced == [pushed EXCEPT
                        !.keys = emplace(pushed.keys, key, begin(pushed.items))]
    IN  simple_restrict_capacity(emplaced)

simple_move_to_front(st, key) ==
    LET existing == find(st.keys, key)
    IN  IF st.keys[existing] # begin(st.items)
        THEN LET spliced == [st EXCEPT !.items = splice(st.items, begin(st.items),
                                                        st.keys[existing])]
             IN  [spliced EXCEPT !.keys[existing] = begin(spliced.items)]
        ELSE st

simple_update_front_value(st, value) == [st EXCEPT !.items[1].second = value]

simple_get_front_value(st) == st.items[1].second

simple_put(st, key, value) ==
    IF simple_contains(st, key)
    THEN simple_outcome(simple_update_front_value(simple_move_to_front(st, key),
                                                  value), "ok", FALSE, 0)
    ELSE simple_outcome(simple_insert_new_item(st, key, value), "ok", FALSE, 0)

simple_get(st, key) ==
    IF ~simple_contains(st, key)
    THEN simple_outcome(st, "out_of_range", FALSE, 0)
    ELSE LET moved == simple_move_to_front(st, key)
         IN  simple_outcome(moved, "ok", FALSE, simple_get_front_value(moved))

\* The outcome of call c of the simplified variant in state st.
simple_call(st, c) ==
    CASE c.op = "construct" -> simple_lru_cache(c.value)
      [] c.op = "empty" -> simple_empty(st)
      [] c.op = "size" -> simple_size(st)
      [] c.op = "clear" -> simple_clear(st)
      [] c.op = "contains" ->
            simple_outcome(st, "ok", simple_contains(st, c.key), 0)
      [] c.op = "put" -> simple_put(st, c.key, c.value)
      [] c.op = "get" -> simple_get(st, c.key)

\* C19: move_to_front of a present key does nothing when the key's entry is
\* the front one; otherwise it moves exactly that entry to the front, keeps
\* the order of the other entries, adds and removes no index entry, changes
\* no value and leaves the key's iterator on the same, now front, entry.
\* When it completes its guard has not run. The move_to_front of the
\* simplified variant gives the same list and index.
C19_MoveToFront ==
    pc \in {"update_front_value", "get_front_value"} =>
        LET p == PosOfKey(pre.items, call.key)
        IN  /\ call.key \in KeysOf(pre.items)
            /\ p = 1 => items_ = pre.items
            /\ items_ = <<pre.items[p]>> \o Others(pre.items, call.key)
            /\ Entries(Others(items_, call.key)) =
                  Entries(Others(pre.items, call.key))
            /\ keys_ = pre.keys
            /\ keys_[call.key] = begin(items_)
            /\ front(items_).first = call.key
            /\ undone = <<>>
            /\ exc = "none"
            /\ simple_move_to_front(simple_state(pre.items, pre.keys, capacity_),
                                    call.key)
                  = simple_state(items_, keys_, capacity_)

\* C19 witness: move_to_front has moved the back entry of a list of two or
\* more entries to the front.
C19_Witness ==
    /\ pc \in {"update_front_value", "get_front_value"}
    /\ Len(pre.items) >= 2
    /\ PosOfKey(pre.items, call.key) = Len(pre.items)
    /\ front(items_).first = call.key

\* The simplified variant in the state the last call began in.
C20_Before == simple_state(pre.items, pre.keys, pre.capacity)

\* C20: a call in which no hash, equality or copy fails ends in the
\* transactional variant with the result and in the state that the same
\* call of the simplified variant, begun in the same state, ends with: the
\* same status and value, the same entries, values and order, the same
\* index. Both begin empty, so their runs agree call by call.
C20_VariantsAgree ==
    (AtRest /\ result.op # "none"
            /\ (fault = "none" \/ result.status = "out_of_range")) =>
        LET s == simple_call(C20_Before, call)
        IN  /\ result.status = s.status
            /\ result.b = s.b
            /\ result.v = s.v
            /\ Entries(items_) = Entries(s.state.items)
            /\ items_ = s.state.items
            /\ keys_ = s.state.keys
            /\ capacity_ = s.state.capacity

\* C20 witness: a put of a new key into a full cache has returned in the
\* transactional variant, evicting as the simplified variant does.
C20_Witness ==
    /\ PutNew
    /\ fault = "none"
    /\ Len(pre.items) = capacity_
    /\ items_ = simple_put(C20_Before, call.key, call.value).state.items

\* C21: from the start of a call to its end size() never decreases unless
\* the call is clear(): a put that returns adds 1 when the key is new and
\* the cache is not full and 0 otherwise; get, contains, size, empty and
\* every call that throws add 0. So a cache that was full when a call other
\* than clear() began is full when it ends.
C21_SizeNeverDecreases ==
    (pc = "idle" /\ result.op \notin {"none", "construct", "clear"}) =>
        LET before == keys_size(pre.keys)
            after == keys_size(keys_)
        IN  /\ after >= before
            /\ Len(items_) = after /\ Len(pre.items) = before
            /\ PutNew => after = IF before < capacity_ THEN before + 1
                                                       ELSE before
            /\ ~PutNew => after = before
            /\ before = capacity_ => after = capacity_

\* C21 witness: a put of a new key into a full cache of two or more entries
\* has returned and the size is still the capacity.
C21_Witness ==
    /\ PutNew
    /\ capacity_ >= 2
    /\ keys_size(pre.keys) = capacity_
    /\ keys_size(keys_) = keys_size(pre.keys)

\* The state of a cache of the given capacity that holds nothing: no entry,
\* no index entry, no iterator kept from an earlier call.
C22_Fresh(capacity) ==
    /\ capacity_ = capacity
    /\ items_ = <<>>
    /\ keys_ = EmptyMap
    /\ existing_item = END /\ next_it = END /\ emplaced_item = END

\* The call just completed began in a cache that held nothing, and ended as
\* it ends on a new cache: a put that returns leaves its entry alone in the
\* list and the index and evicts nothing, a get throws, contains answers
\* false, size 0 and empty true, and all but the put leave the cache
\* holding nothing.
C22_AsOnNewCache ==
    /\ pre.items = <<>> /\ pre.keys = EmptyMap
    /\ Returned("put") =>
          /\ items_ = push_front(<<>>, call.key, call.value)
          /\ keys_ = emplace(EmptyMap, call.key, begin(items_))
          /\ Evicted(pre.items, items_) = <<>>
    /\ ~Returned("put") => C22_Fresh(pre.capacity)
    /\ result.op = "get" => result.status \in {"out_of_range", "hash_failure"}
    /\ Returned("contains") => ~result.b
    /\ Returned("size") => result.v = 0
    /\ Returned("empty") => result.b

\* C22: clear() leaves the state that the constructor leaves for the same
\* capacity: no entry, no index entry, no iterator, no order. A call that
\* begins in that state ends in the same way whether a clear() or the
\* constructor led to it, whatever the cache held before the clear(); as a
\* call reads nothing but this state, so does every sequence of calls.
C22_ClearedIsFresh ==
    /\ Returned("construct") => C22_Fresh(result.value)
    /\ (pc = "idle" /\ result.op = "clear") =>
          /\ result.status = "ok"
          /\ C22_Fresh(pre.capacity)
          /\ order = <<>>
    /\ (pc = "idle" /\ pre.cleared) => C22_AsOnNewCache
    /\ (pc = "idle" /\ call.op \notin {"construct", "clear"}
                   /\ pre.items = <<>> /\ pre.keys = EmptyMap) =>
          C22_AsOnNewCache

\* C22 witness: a put has returned right after the clear() of a cache, and
\* the cache holds the entry of that put alone.
C22_Witness ==
    /\ pc = "idle"
    /\ pre.cleared
    /\ Returned("put")
    /\ Len(items_) = 1
    /\ front(items_).first = call.key

=============================================================================
